---- MODULE Spec2Model ----
(***************************************************************************)
(* Model of the technical-indicator scoring engine of KashaNeko_invest:    *)
(* src/src/logic/getTickersData.py (calculate_metrics_for_ticker,          *)
(* get_tickers_data, get_tuning_parameters), src/src/logic/analysis.py     *)
(* (run_analysis_task, save_results_to_db), src/src/logic/output.py        *)
(* (filter_and_enrich_data) and src/src/logic/stocks.py (search_stocks).   *)
(*                                                                         *)
(* Numbers are exact rationals [k, n, d] (n/d, d > 0); pandas' NaN and     *)
(* Python's None are values of the same record shape, so that every        *)
(* comparison of the code is modelled with Python's semantics: a           *)
(* comparison with NaN is False.  Floating-point rounding is not modelled. *)
(***************************************************************************)
EXTENDS Integers, Sequences, FiniteSets, TLC

VARIABLES
    pc,              \* position inside calculate_metrics_for_ticker
    ticker,          \* argument: the ticker symbol
    multi_data,      \* argument: daily frame, column (ticker) -> rows
    intra_day_data,  \* argument: intraday frame [index, Close]
    params,          \* argument: the ParameterSet
    df,              \* local: the per-ticker frame after dropna()
    price_at_time,   \* local: the as-of close
    ind,             \* locals rsi, sma_25, sma_75, previous_sma_75, macd_line, ...
    deviation_rate_25, \* local
    trend,           \* local
    signals,         \* local: family -> label
    buy_score,       \* local
    short_score,     \* local
    ret,             \* value returned by calculate_metrics_for_ticker
    bpc,             \* position inside run_analysis_task / get_tickers_data
    tickers,         \* get_tickers_data: the universe list (None when unreadable)
    b_multi,         \* get_tickers_data: multi_data returned by the download
    b_intra,         \* get_tickers_data: intra_day_data returned by the download
    b_dl,            \* get_tickers_data: outcome of download_stock_data
    b_lib,           \* the indicator library's values for each downloaded ticker
    idx,             \* get_tickers_data: loop position in zip(tickers, yf_tickers)
    results,         \* get_tickers_data: insertion-ordered dict, as a sequence of [key, value]
    raw_data,        \* run_analysis_task: value returned by get_tickers_data
    db_runs,         \* committed rows of analysis_runs
    db_results,      \* committed rows of analysis_results
    db_params,       \* committed rows of tuning_parameters
    db_seq,          \* last value of the id sequence of analysis_runs
    now,             \* the store's clock (server_default func.now())
    today,           \* date.today()
    spc,             \* position inside the store function being called
    s_results,       \* save_results_to_db: argument results, as a sequence of [key, value]
    s_params,        \* save_results_to_db: argument params
    s_idx,           \* save_results_to_db: loop position in results.items()
    tx_runs,         \* session: AnalysisRun rows written but not committed
    tx_results,      \* session: AnalysisResult rows added but not committed
    tx_params,       \* session: TuningParameter rows added but not committed
    latest_date,     \* get_tuning_parameters: local latest_date
    s_ret,           \* outcome of the last store call: returned value or raised
    query,           \* search_stocks: the arguments of the call
    found,           \* search_stocks: the list returned
    filters,         \* filter_and_enrich_data: the arguments of the call
    exported         \* filter_and_enrich_data: the list returned

tvars == <<pc, ticker, multi_data, intra_day_data, params, df, price_at_time, ind,
           deviation_rate_25, trend, signals, buy_score, short_score, ret>>
blocals == <<bpc, tickers, b_multi, b_intra, b_dl, b_lib, idx, results, raw_data>>
svars == <<db_params, db_seq, now, today, spc, s_results, s_params, s_idx, tx_runs, tx_results,
           tx_params, latest_date, s_ret, query, found, filters, exported>>
bvars == <<blocals, db_runs, db_results, svars>>
vars == <<tvars, bvars>>

----------------------------------------------------------------------------
(* Values: numbers, NaN, None *)

Num(i) == [k |-> "num", n |-> i, d |-> 1]
Frac(a, b) == [k |-> "num", n |-> a, d |-> b]
NaN == [k |-> "nan", n |-> 0, d |-> 1]
None == [k |-> "none", n |-> 0, d |-> 1]
Unset == [k |-> "unset", n |-> 0, d |-> 1]

\* An optional value: Python's None, or a value.
NoneOpt == [none |-> TRUE, val |-> <<>>]
Some(x) == [none |-> FALSE, val |-> x]

IsNum(x) == x.k = "num"
IsNone(x) == x.k = "none"

\* Python comparisons on floats: False as soon as one side is NaN.
LT(a, b) == IsNum(a) /\ IsNum(b) /\ a.n * b.d < b.n * a.d
LE(a, b) == IsNum(a) /\ IsNum(b) /\ a.n * b.d <= b.n * a.d
GT(a, b) == LT(b, a)
GE(a, b) == LE(b, a)
EQ(a, b) == IsNum(a) /\ IsNum(b) /\ a.n * b.d = b.n * a.d

\* ((a - b) / b) * 100 for b > 0; NaN propagates.
DeviationRate(a, b) ==
    IF IsNum(a) /\ IsNum(b) /\ b.n > 0
    THEN Frac(100 * (a.n * b.d - b.n * a.d), a.d * b.n)
    ELSE NaN

----------------------------------------------------------------------------
(* ParameterSet *)

\* Scaled-down long SMA length (DEFAULT_PARAMS has 75).
SmaLongLen == 3

\* DEFAULT_PARAMS thresholds with indicator lengths scaled down so that, as with
\* the defaults, every library indicator is warmed up once sma_long_length bars exist.
FastParams ==
    [rsi_length |-> 2, rsi_buy_threshold |-> 25, rsi_buy_prepare_threshold |-> 40,
     rsi_sell_threshold |-> 75, rsi_sell_prepare_threshold |-> 60,
     sma_short_length |-> 2, sma_long_length |-> SmaLongLen,
     deviation_buy_threshold |-> -5, deviation_sell_threshold |-> 5,
     macd_fast |-> 1, macd_slow |-> 2, macd_signal |-> 2,
     adx_length |-> 1, adx_threshold |-> 25]

\* A tuned set from the tuning_parameters table: both prepare thresholds coincide.
TunedParams ==
    [FastParams EXCEPT !.rsi_buy_prepare_threshold = 50, !.rsi_sell_prepare_threshold = 50,
                       !.adx_threshold = 20]

\* Tuned sets whose library indicators need more bars than sma_long_length.
SlowMacdParams == [FastParams EXCEPT !.macd_slow = SmaLongLen, !.macd_signal = 3]
SlowRsiParams == [FastParams EXCEPT !.rsi_length = SmaLongLen + 1]
SlowAdxParams == [FastParams EXCEPT !.adx_length = SmaLongLen]

\* Thresholds in no sensible order: buy above sell for the RSI, for the prepare
\* band and for the deviation.
CrossedParams ==
    [FastParams EXCEPT !.rsi_buy_threshold = 75, !.rsi_sell_threshold = 25,
                       !.rsi_buy_prepare_threshold = 60, !.rsi_sell_prepare_threshold = 40,
                       !.deviation_buy_threshold = 5, !.deviation_sell_threshold = -5]

ScoreParamSets == {FastParams, TunedParams}
WindowParamSets == {FastParams, SlowMacdParams, SlowRsiParams, SlowAdxParams}

----------------------------------------------------------------------------
(* Frames *)

Fields == {"high", "low", "close", "volume"}

Bar(c) == [high |-> Num(c), low |-> Num(c), close |-> Num(c), volume |-> Num(1)]

Complete(row) == \A f \in Fields : IsNum(row[f])

\* pd.DataFrame({...}).dropna(): keeps the rows with no missing field.
DropNa(rows) == SelectSeq(rows, Complete)

\* Faulty variant: the length check written with <= instead of <.
InsufficientDataInclusive(d, p) == Len(d) <= p.sma_long_length

\* Line 107: len(df) < params["sma_long_length"]
InsufficientData(d, p) == Len(d) < p.sma_long_length

\* Timestamps of intraday bars: [day, tod].  TARGET_TIME is the time of day
\* '15:00'; pd.Timestamp(TARGET_TIME, tz=...) is that time on the current date.
TARGET_TIME == 2
Today == 1
MaxTod == 3

TargetStamp == [day |-> Today, tod |-> TARGET_TIME]

Before(a, b) == a.day < b.day \/ (a.day = b.day /\ a.tod < b.tod)

\* DataFrame.empty: no row or no column.
FrameEmpty(frame) == Len(frame.index) = 0 \/ DOMAIN frame.Close = {}

\* intra_day_data['Close'][ticker].dropna() as a sequence of [ts, v].
DataToday(frame, t) ==
    LET col == frame.Close[t]
        Pair(i) == [ts |-> frame.index[i], v |-> col[i]]
        all == [i \in 1..Len(frame.index) |-> Pair(i)]
        Present(b) == IsNum(b.v)
    IN  SelectSeq(all, Present)

AtTargetTime(b) == b.ts.tod = TARGET_TIME
BeforeTarget(b) == Before(b.ts, TargetStamp)

\* Faulty variant: without a bar at the target time, the latest bar of the session is taken.
ResolvePriceLatest(d, frame, t) ==
    LET last_close == d[Len(d)].close
    IN  IF FrameEmpty(frame) \/ t \notin DOMAIN frame.Close THEN last_close
        ELSE LET data_today == DataToday(frame, t)
                 target_time_data == SelectSeq(data_today, AtTargetTime)
             IN  IF Len(data_today) = 0 THEN last_close
                 ELSE IF Len(target_time_data) > 0 THEN target_time_data[1].v
                 ELSE data_today[Len(data_today)].v

\* Lines 111-121: the as-of close.
ResolvePrice(d, frame, t) ==
    LET last_close == d[Len(d)].close
    IN  IF FrameEmpty(frame) \/ t \notin DOMAIN frame.Close THEN last_close
        ELSE LET data_today == DataToday(frame, t)
                 target_time_data == SelectSeq(data_today, AtTargetTime)
                 closest_previous_time_data == SelectSeq(data_today, BeforeTarget)
             IN  IF Len(data_today) = 0 THEN last_close
                 ELSE IF Len(target_time_data) > 0 THEN target_time_data[1].v
                 ELSE IF Len(closest_previous_time_data) > 0
                      THEN closest_previous_time_data[Len(closest_previous_time_data)].v
                 ELSE last_close

\* Line 123: df.loc[df.index[-1], 'close'] = price_at_time
SetLastClose(d, price) == [d EXCEPT ![Len(d)].close = price]

----------------------------------------------------------------------------
(* Indicators: lines 126-142 *)

RECURSIVE SumClose(_, _, _)
SumClose(d, from, to) ==
    IF from > to THEN 0 ELSE d[from].close.n + SumClose(d, from + 1, to)

\* Value of column SMA_<len> at row i (1-based): rolling mean with
\* min_periods = len, NaN while fewer than len rows are available.
\* Closes are whole numbers in this model (d = 1).
SmaAt(d, len, i) ==
    IF i >= len /\ i <= Len(d) THEN Frac(SumClose(d, i - len + 1, i), len) ELSE NaN

Max2(a, b) == IF a >= b THEN a ELSE b

\* What lines 126-142 leave in the locals.  lib holds the values the indicator
\* library computes for the final bar (RSI, MACD, ADX/DMI recurrences are library
\* code); which of them are missing (None: the column was never appended) or NaN
\* (warm-up not complete) follows from the number of rows.  lib.macd_raises tells
\* the two builds of the library apart: without TA-Lib a MACD signal that cannot be
\* seeded raises, with TA-Lib it is NaN.
Indicators(d, p, lib) ==
    LET n == Len(d)
        need_macd == Max2(Max2(p.macd_fast, p.macd_slow), p.macd_signal)
        slow == Max2(p.macd_fast, p.macd_slow)
        macd_cold == n - slow + 1 < p.macd_signal
        macd_missing == n < need_macd \/ p.macd_fast > p.macd_slow
        adx_missing == n < p.adx_length
    IN  [exc |-> \/ n < 2
                 \/ n < p.sma_long_length
                 \/ (n >= need_macd /\ macd_cold /\ lib.macd_raises),
         rsi |-> IF n < p.rsi_length THEN None
                 ELSE IF n <= p.rsi_length THEN NaN ELSE lib.rsi,
         sma_25 |-> IF n < p.sma_short_length THEN None ELSE SmaAt(d, p.sma_short_length, n),
         sma_75 |-> IF n < p.sma_long_length THEN None ELSE SmaAt(d, p.sma_long_length, n),
         previous_sma_75 |-> SmaAt(d, p.sma_long_length, n - 1),
         macd_line |-> IF macd_missing THEN None ELSE IF macd_cold THEN NaN ELSE lib.macd_line,
         macd_signal_val |-> IF macd_missing THEN None
                             ELSE IF macd_cold THEN NaN ELSE lib.macd_signal,
         adx |-> IF adx_missing THEN None
                 ELSE IF n < 2 * p.adx_length THEN NaN ELSE lib.adx,
         dmp |-> IF adx_missing THEN None ELSE IF n <= p.adx_length THEN NaN ELSE lib.dmp,
         dmn |-> IF adx_missing THEN None ELSE IF n <= p.adx_length THEN NaN ELSE lib.dmn]

\* Line 144: any(v is None for v in [rsi, sma_25, sma_75, macd_line, macd_signal_val, adx, dmp, dmn])
AnyNone(i) ==
    \E f \in {"rsi", "sma_25", "sma_75", "macd_line", "macd_signal_val", "adx", "dmp", "dmn"} :
        IsNone(i[f])

\* Line 149
TrendOf(sma_75, previous_sma_75) ==
    IF GT(sma_75, previous_sma_75) THEN "Upward"
    ELSE IF LT(sma_75, previous_sma_75) THEN "Downward"
    ELSE "No change"

----------------------------------------------------------------------------
(* Signal generation and scoring: lines 156-184.  Each family operator gives   *)
(* the label written to signals and the points added to each score.            *)

Branch(label, buy, short) == [label |-> label, buy |-> buy, short |-> short]

\* Faulty variant: the strong-sell test written with >= instead of >.
RsiBranchSellInclusive(rsi, p) ==
    IF LT(rsi, Num(p.rsi_buy_threshold)) THEN Branch("buy", 2, 0)
    ELSE IF LE(Num(p.rsi_buy_threshold), rsi) /\ LT(rsi, Num(p.rsi_buy_prepare_threshold))
         THEN Branch("buy prepare", 1, 0)
    ELSE IF GE(rsi, Num(p.rsi_sell_threshold)) THEN Branch("sell", 0, 2)
    ELSE IF LE(Num(p.rsi_sell_prepare_threshold), rsi) /\ LE(rsi, Num(p.rsi_sell_threshold))
         THEN Branch("sell prepare", 0, 1)
    ELSE Branch("neutral", 0, 0)

\* Lines 157-161
RsiBranch(rsi, p) ==
    IF LT(rsi, Num(p.rsi_buy_threshold)) THEN Branch("buy", 2, 0)
    ELSE IF LE(Num(p.rsi_buy_threshold), rsi) /\ LT(rsi, Num(p.rsi_buy_prepare_threshold))
         THEN Branch("buy prepare", 1, 0)
    ELSE IF GT(rsi, Num(p.rsi_sell_threshold)) THEN Branch("sell", 0, 2)
    ELSE IF LE(Num(p.rsi_sell_prepare_threshold), rsi) /\ LE(rsi, Num(p.rsi_sell_threshold))
         THEN Branch("sell prepare", 0, 1)
    ELSE Branch("neutral", 0, 0)

\* Faulty variant: the thresholds made exclusive.
DivergenceBranchStrict(dev, p) ==
    IF LT(dev, Num(p.deviation_buy_threshold)) THEN Branch("buy", 2, 0)
    ELSE IF GT(dev, Num(p.deviation_sell_threshold)) THEN Branch("sell", 0, 2)
    ELSE Branch("neutral", 0, 0)

\* Lines 164-166
DivergenceBranch(dev, p) ==
    IF LE(dev, Num(p.deviation_buy_threshold)) THEN Branch("buy", 2, 0)
    ELSE IF GE(dev, Num(p.deviation_sell_threshold)) THEN Branch("sell", 0, 2)
    ELSE Branch("neutral", 0, 0)

\* Lines 169-171
TrendBranch(tr) ==
    IF tr = "Upward" THEN Branch(tr, 1, 0)
    ELSE IF tr = "Downward" THEN Branch(tr, 0, 1)
    ELSE Branch(tr, 0, 0)

\* Faulty variant: the else branch adds its points to buy_score.
MacdBranchWrongScore(macd_line, macd_signal_val) ==
    IF GT(macd_line, macd_signal_val) THEN Branch("buy", 2, 0) ELSE Branch("sell", 2, 0)

\* Lines 174-175
MacdBranch(macd_line, macd_signal_val) ==
    IF GT(macd_line, macd_signal_val) THEN Branch("buy", 2, 0) ELSE Branch("sell", 0, 2)

\* Faulty variant: a tie gives no points to either side.
DmiBranchTieNeutral(dmp, dmn) ==
    IF GT(dmp, dmn) THEN Branch("golden cross", 2, 0)
    ELSE IF LT(dmp, dmn) THEN Branch("dead cross", 0, 2)
    ELSE Branch("dead cross", 0, 0)

\* Faulty variant: a tie goes to the buy branch.
DmiBranchTieBuys(dmp, dmn) ==
    IF GE(dmp, dmn) THEN Branch("golden cross", 2, 0) ELSE Branch("dead cross", 0, 2)

\* Lines 178-179
DmiBranch(dmp, dmn) ==
    IF GT(dmp, dmn) THEN Branch("golden cross", 2, 0) ELSE Branch("dead cross", 0, 2)

\* Faulty variant: adx equal to the threshold counts as a strong trend.
AdxBranchInclusive(adx, dmp, dmn, p) ==
    IF GE(adx, Num(p.adx_threshold)) /\ GT(dmp, dmn) THEN Branch("strong uptrend", 1, 0)
    ELSE IF GE(adx, Num(p.adx_threshold)) /\ LT(dmp, dmn) THEN Branch("strong downtrend", 0, 1)
    ELSE Branch("trendless", 0, 0)

\* Lines 182-184
AdxBranch(adx, dmp, dmn, p) ==
    IF GT(adx, Num(p.adx_threshold)) /\ GT(dmp, dmn) THEN Branch("strong uptrend", 1, 0)
    ELSE IF GT(adx, Num(p.adx_threshold)) /\ LT(dmp, dmn) THEN Branch("strong downtrend", 0, 1)
    ELSE Branch("trendless", 0, 0)

\* The families in the order the code scores them, with the key each writes.
Families == <<"RSI", "Divergence_25d", "MA75_Trend", "MACD", "DMI", "ADX">>

FamilyBranch(fam, i, dev, tr, p) ==
    CASE fam = "RSI" -> RsiBranch(i.rsi, p)
      [] fam = "Divergence_25d" -> DivergenceBranch(dev, p)
      [] fam = "MA75_Trend" -> TrendBranch(tr)
      [] fam = "MACD" -> MacdBranch(i.macd_line, i.macd_signal_val)
      [] fam = "DMI" -> DmiBranch(i.dmp, i.dmn)
      [] fam = "ADX" -> AdxBranch(i.adx, i.dmp, i.dmn, p)

----------------------------------------------------------------------------
(* calculate_metrics_for_ticker as one function of its arguments *)

EmptyDict == [f \in {} |-> ""]

RECURSIVE ScoreUpTo(_, _, _, _, _)
\* signals and scores after the first k families have been scored.
ScoreUpTo(k, i, dev, tr, p) ==
    IF k = 0 THEN [signals |-> EmptyDict, buy_score |-> 0, short_score |-> 0]
    ELSE LET prev == ScoreUpTo(k - 1, i, dev, tr, p)
             b == FamilyBranch(Families[k], i, dev, tr, p)
         IN  [signals |-> (Families[k] :> b.label) @@ prev.signals,
              buy_score |-> prev.buy_score + b.buy,
              short_score |-> prev.short_score + b.short]

\* Lines 187-201: the returned dict.
Metrics(t, price, i, dev, tr, volume, sig, buy, short, p) ==
    [ticker |-> t, price |-> price, rsi |-> i.rsi, deviation_rate_25 |-> dev, trend |-> tr,
     MACD |-> [line |-> i.macd_line, signal |-> i.macd_signal_val],
     DMI |-> [dmp |-> i.dmp, dmn |-> i.dmn], ADX |-> i.adx, Volume |-> volume,
     signals |-> sig, buy_score |-> buy, short_score |-> short, parameters_used |-> p]

\* The whole function (lines 96-204): None for a skipped ticker and for any exception.
CalculateMetrics(t, md, intra, p, lib) ==
    IF t \notin DOMAIN md THEN None
    ELSE LET d0 == DropNa(md[t])
         IN  IF InsufficientData(d0, p) THEN None
             ELSE IF Len(d0) = 0 THEN None
             ELSE LET price == ResolvePrice(d0, intra, t)
                      d1 == SetLastClose(d0, price)
                      i == Indicators(d1, p, lib)
                      dev == DeviationRate(price, i.sma_25)
                      tr == TrendOf(i.sma_75, i.previous_sma_75)
                      sc == ScoreUpTo(Len(Families), i, dev, tr, p)
                  IN  IF i.exc \/ AnyNone(i) THEN None
                      ELSE Metrics(t, price, i, dev, tr, d1[Len(d1)].volume,
                                   sc.signals, sc.buy_score, sc.short_score, p)

----------------------------------------------------------------------------
(* calculate_metrics_for_ticker step by step *)

UnsetInd ==
    [exc |-> FALSE, rsi |-> Unset, sma_25 |-> Unset, sma_75 |-> Unset,
     previous_sma_75 |-> Unset, macd_line |-> Unset, macd_signal_val |-> Unset,
     adx |-> Unset, dmp |-> Unset, dmn |-> Unset]

EmptyFrame == [index |-> <<>>, Close |-> EmptyDict]

TickerInit ==
    /\ pc = "idle"
    /\ ticker = ""
    /\ multi_data = EmptyDict
    /\ intra_day_data = EmptyFrame
    /\ params = FastParams
    /\ df = <<>>
    /\ price_at_time = Unset
    /\ ind = UnsetInd
    /\ deviation_rate_25 = Unset
    /\ trend = ""
    /\ signals = EmptyDict
    /\ buy_score = 0
    /\ short_score = 0
    /\ ret = Unset

UnsetLocals ==
    /\ price_at_time' = Unset
    /\ ind' = UnsetInd
    /\ deviation_rate_25' = Unset
    /\ trend' = ""
    /\ signals' = EmptyDict
    /\ buy_score' = 0
    /\ short_score' = 0

\* Lines 96-109: entry, the per-ticker frame, the length check.  A ticker with no
\* column raises KeyError, which line 202 turns into None; so does df.index[-1]
\* of an empty frame.
Call(TS, DS, IS, PS) ==
    /\ pc = "idle"
    /\ \E t \in TS, md \in DS, intra \in IS, p \in PS :
        /\ ticker' = t
        /\ multi_data' = md
        /\ intra_day_data' = intra
        /\ params' = p
        /\ IF t \notin DOMAIN md
           THEN df' = <<>> /\ ret' = None /\ pc' = "returned"
           ELSE /\ df' = DropNa(md[t])
                /\ IF InsufficientData(df', p) \/ Len(df') = 0
                   THEN ret' = None /\ pc' = "returned"
                   ELSE ret' = Unset /\ pc' = "asof"
    /\ UnsetLocals
    /\ UNCHANGED bvars

\* Lines 111-123
ResolveAsOf ==
    /\ pc = "asof"
    /\ price_at_time' = ResolvePrice(df, intra_day_data, ticker)
    /\ df' = SetLastClose(df, price_at_time')
    /\ pc' = "indicators"
    /\ UNCHANGED <<ticker, multi_data, intra_day_data, params, ind, deviation_rate_25,
                   trend, signals, buy_score, short_score, ret, bvars>>

\* Lines 126-154: the indicator columns, the latest values, the None check,
\* deviation and trend, the zeroed scores.
ComputeIndicators(LS) ==
    /\ pc = "indicators"
    /\ \E lib \in LS :
        LET i == Indicators(df, params, lib)
        IN  IF i.exc
            THEN /\ ret' = None /\ pc' = "returned"
                 /\ UNCHANGED <<ind, deviation_rate_25, trend>>
            ELSE /\ ind' = i
                 /\ IF AnyNone(i)
                    THEN /\ ret' = None /\ pc' = "returned"
                         /\ UNCHANGED <<deviation_rate_25, trend>>
                    ELSE /\ deviation_rate_25' = DeviationRate(price_at_time, i.sma_25)
                         /\ trend' = TrendOf(i.sma_75, i.previous_sma_75)
                         /\ ret' = Unset /\ pc' = "RSI"
    /\ buy_score' = 0
    /\ short_score' = 0
    /\ signals' = EmptyDict
    /\ UNCHANGED <<ticker, multi_data, intra_day_data, params, df, price_at_time, bvars>>

\* One family of lines 156-184: write its label, add its points.
ScoreStep(k) ==
    /\ pc = Families[k]
    /\ LET b == FamilyBranch(Families[k], ind, deviation_rate_25, trend, params)
       IN  /\ signals' = (Families[k] :> b.label) @@ signals
           /\ buy_score' = buy_score + b.buy
           /\ short_score' = short_score + b.short
    /\ pc' = IF k < Len(Families) THEN Families[k + 1] ELSE "return"
    /\ UNCHANGED <<ticker, multi_data, intra_day_data, params, df, price_at_time, ind,
                   deviation_rate_25, trend, ret, bvars>>

ScoreRSI == ScoreStep(1)
ScoreDivergence == ScoreStep(2)
ScoreTrend == ScoreStep(3)
ScoreMACD == ScoreStep(4)
ScoreDMI == ScoreStep(5)
ScoreADX == ScoreStep(6)

\* Lines 186-201
Return ==
    /\ pc = "return"
    /\ ret' = Metrics(ticker, price_at_time, ind, deviation_rate_25, trend,
                      df[Len(df)].volume, signals, buy_score, short_score, params)
    /\ pc' = "returned"
    /\ UNCHANGED <<ticker, multi_data, intra_day_data, params, df, price_at_time, ind,
                   deviation_rate_25, trend, signals, buy_score, short_score, bvars>>

----------------------------------------------------------------------------
(* Bounded inputs *)

\* Daily closes: with sma_short_length = 2 they give deviations of exactly -5, 0
\* and +5 percent (19 vs 21) as well as values beyond and inside the thresholds.
CloseVals == {19, 21, 23}

\* Rows with a missing field, as the provider leaves them for a day without a trade.
GapRows == {[Bar(21) EXCEPT ![f] = NaN] : f \in Fields}

SeqsUpTo(S, n) == UNION {[1..k -> S] : k \in 0..n}

MaxBars == SmaLongLen + 1

T1 == "7203.T"

\* Daily frames of one ticker: every window of at most MaxBars rows, and the
\* frame without the ticker's column.
WideDaily ==
    {(T1 :> rows) : rows \in SeqsUpTo({Bar(19), Bar(21)} \cup GapRows, MaxBars)}
        \cup {EmptyDict}

\* Complete windows of sma_long_length + 1 rows whose first and last two closes vary.
NarrowDaily ==
    {(T1 :> (<<Bar(a)>> \o [i \in 1..(SmaLongLen - 2) |-> Bar(21)] \o <<Bar(b), Bar(c)>>)) :
        a \in {19, 21}, b \in CloseVals, c \in CloseVals}

AsOfDaily == {(T1 :> [i \in 1..SmaLongLen |-> Bar(21)])}

\* The close of the intraday bar at time of day tod: one value per bar, none of
\* them a daily close, so that the bar a price came from can be told.
IntraClose(tod) == 24 + tod

SortedSeq(T) ==
    CHOOSE s \in [1..Cardinality(T) -> T] : \A i, j \in 1..Cardinality(T) : i < j => s[i] < s[j]

\* One session (period="1d") on `day` with a bar at each time of day in T;
\* has[tod] = FALSE is a bar whose close is missing.
SessionFrame(t, day, T, has) ==
    LET s == SortedSeq(T)
    IN  [index |-> [i \in 1..Len(s) |-> [day |-> day, tod |-> s[i]]],
         Close |-> (t :> [i \in 1..Len(s) |-> IF has[s[i]] THEN Num(IntraClose(s[i])) ELSE NaN])]

\* A non-empty frame without the ticker's column.
OtherColumnFrame ==
    [index |-> <<TargetStamp>>, Close |-> ("^N225" :> <<Num(IntraClose(TARGET_TIME))>>)]

WideIntra ==
    {EmptyFrame, OtherColumnFrame} \cup
    {SessionFrame(T1, day, T, has) :
        day \in 0..Today, T \in (SUBSET (1..MaxTod)) \ {{}}, has \in [1..MaxTod -> BOOLEAN]}

NarrowIntra == {EmptyFrame, SessionFrame(T1, Today, {TARGET_TIME}, [i \in 1..MaxTod |-> TRUE])}

Lib(rsi, ml, ms, adx, dmp, dmn, raises) ==
    [rsi |-> rsi, macd_line |-> ml, macd_signal |-> ms, adx |-> adx, dmp |-> dmp, dmn |-> dmn,
     macd_raises |-> raises]

\* Library values straddling every threshold of p; NaN is what the library gives
\* for a flat series (RSI: 0/0; DMI/ADX: zero true range).
RsiVals(p) ==
    {Num(v) : v \in {p.rsi_buy_threshold - 1, p.rsi_buy_threshold,
                     p.rsi_buy_prepare_threshold - 1, p.rsi_buy_prepare_threshold,
                     p.rsi_sell_prepare_threshold - 1, p.rsi_sell_prepare_threshold,
                     p.rsi_sell_threshold, p.rsi_sell_threshold + 1}} \cup {NaN}
MacdPairs == {<<Num(1), Num(0)>>, <<Num(0), Num(0)>>, <<Num(0), Num(1)>>}
DmiPairs == {<<Num(30), Num(20)>>, <<Num(20), Num(20)>>, <<Num(20), Num(30)>>, <<NaN, NaN>>}
AdxVals(p) == {Num(p.adx_threshold), Num(p.adx_threshold + 1), NaN}

WideLib(p) ==
    {Lib(r, m[1], m[2], a, d[1], d[2], TRUE) :
        r \in RsiVals(p), m \in MacdPairs, a \in AdxVals(p), d \in DmiPairs}

NarrowLib ==
    {Lib(r, Num(1), Num(0), Num(30), d[1], d[2], raises) :
        r \in {Num(50), NaN}, d \in {<<Num(30), Num(20)>>, <<NaN, NaN>>}, raises \in BOOLEAN}

OneLib == {Lib(Num(50), Num(1), Num(0), Num(30), Num(30), Num(20), TRUE)}

----------------------------------------------------------------------------
(* Specifications of calculate_metrics_for_ticker *)

\* No store function is being called and the session holds no pending row.
SessionIdle ==
    /\ spc = "idle"
    /\ s_results = <<>>
    /\ s_params = FastParams
    /\ s_idx = 0
    /\ tx_runs = <<>>
    /\ tx_results = <<>>
    /\ tx_params = {}
    /\ latest_date = NoneOpt
    /\ s_ret = NoneOpt
    /\ query = NoneOpt
    /\ found = NoneOpt
    /\ filters = NoneOpt
    /\ exported = NoneOpt

\* The store's clock and calendar at the start.
ClockInit == now = 1 /\ today = 1

BatchIdle ==
    /\ bpc = "idle"
    /\ tickers = NoneOpt
    /\ b_multi = EmptyDict
    /\ b_intra = EmptyFrame
    /\ b_dl = "pending"
    /\ b_lib = EmptyDict
    /\ idx = 0
    /\ results = <<>>
    /\ raw_data = NoneOpt
    /\ db_runs = <<>>
    /\ db_results = <<>>
    /\ db_params = {}
    /\ db_seq = 0

Init == TickerInit /\ BatchIdle /\ SessionIdle /\ ClockInit

\* Every daily window, few intraday frames and library values.
Next ==
    \/ Call({T1}, WideDaily, NarrowIntra, WindowParamSets)
    \/ ResolveAsOf
    \/ ComputeIndicators(NarrowLib)
    \/ ScoreRSI
    \/ ScoreDivergence
    \/ ScoreTrend
    \/ ScoreMACD
    \/ ScoreDMI
    \/ ScoreADX
    \/ Return

Spec == Init /\ [][Next]_vars

\* Every library value around the thresholds, few windows.
NextScore ==
    \/ Call({T1}, NarrowDaily, {EmptyFrame}, ScoreParamSets)
    \/ ResolveAsOf
    \/ ComputeIndicators(WideLib(params))
    \/ ScoreRSI
    \/ ScoreDivergence
    \/ ScoreTrend
    \/ ScoreMACD
    \/ ScoreDMI
    \/ ScoreADX
    \/ Return

SpecScore == Init /\ [][NextScore]_vars

\* Every library value around the thresholds, ordered and crossed thresholds.
NextBounds ==
    \/ Call({T1}, NarrowDaily, {EmptyFrame}, {FastParams, CrossedParams})
    \/ ResolveAsOf
    \/ ComputeIndicators(WideLib(params))
    \/ ScoreRSI
    \/ ScoreDivergence
    \/ ScoreTrend
    \/ ScoreMACD
    \/ ScoreDMI
    \/ ScoreADX
    \/ Return

SpecBounds == Init /\ [][NextBounds]_vars

\* Every intraday session, one window.
NextAsOf ==
    \/ Call({T1}, AsOfDaily, WideIntra, {FastParams})
    \/ ResolveAsOf
    \/ ComputeIndicators(OneLib)
    \/ ScoreRSI
    \/ ScoreDivergence
    \/ ScoreTrend
    \/ ScoreMACD
    \/ ScoreDMI
    \/ ScoreADX
    \/ Return

SpecAsOf == Init /\ [][NextAsOf]_vars

----------------------------------------------------------------------------
(* The tuning store read by get_tuning_parameters (getTickersData.py lines 36-69) *)

\* Rows of tuning_parameters are [date, name, value]; value is a Float column.
ParamNames == DOMAIN FastParams

\* Line 57: the parameters converted with int().
IntNames == {"rsi_length", "sma_short_length", "sma_long_length", "macd_fast", "macd_slow",
             "macd_signal", "adx_length", "adx_threshold"}

\* int() of a float: truncation towards zero.
Trunc(v) == IF v.n >= 0 THEN Num(v.n \div v.d) ELSE Num(-((-v.n) \div v.d))

\* Lines 46-48: one row per default parameter, dated today.
DefaultRows(d) == {[date |-> d, name |-> n, value |-> Num(FastParams[n])] : n \in ParamNames}

\* Line 69: return DEFAULT_PARAMS (no 'date' key).
DefaultReturn == [values |-> [n \in ParamNames |-> Num(FastParams[n])], date |-> NoneOpt]

\* Faulty variant: the oldest date is taken.
EarliestDate(rows) ==
    IF rows = {} THEN NoneOpt
    ELSE Some(CHOOSE d \in {r.date : r \in rows} : \A r \in rows : d <= r.date)

\* Line 41: func.max(TuningParameter.date); None for an empty table.
LatestDate(rows) ==
    IF rows = {} THEN NoneOpt
    ELSE Some(CHOOSE d \in {r.date : r \in rows} : \A r \in rows : d >= r.date)

\* Lines 53-65: the dict of the rows of latest_date, with its 'date' key.
LoadedReturn(rows, d) ==
    LET parameters == {r \in rows : r.date = d}
    IN  [values |-> [n \in {r.name : r \in parameters} |->
                        LET r == CHOOSE r \in parameters : r.name = n
                        IN  IF n \in IntNames THEN Trunc(r.value) ELSE r.value],
         date |-> Some(d)]

\* The constraint _date_name_uc of the table.
UniqueDateName(rows) ==
    \A r1, r2 \in rows : (r1.date = r2.date /\ r1.name = r2.name) => r1 = r2

\* The dict as the ParameterSet the scoring reads: every parameter present.
AsParams(out) == [n \in ParamNames |-> out.values[n].n]

----------------------------------------------------------------------------
(* get_tickers_data and run_analysis_task *)

\* Line 216: f"{t}.T" if not t.startswith('^') else t
YfTicker(t) == IF t = "^N225" THEN t ELSE IF t = "7203" THEN T1 ELSE "6758.T"

\* DataFrame.empty of the daily frame: no column or no row.
DailyEmpty(md) == DOMAIN md = {} \/ \A t \in DOMAIN md : Len(md[t]) = 0

\* Faulty variant: the emptiness of the daily frame is not tested.
DownloadUnusableNoEmptyTest(dl, md) == dl = "failed"

\* Line 218: multi_data is None or intra_day_data is None or multi_data.empty
DownloadUnusable(dl, md) == dl = "failed" \/ DailyEmpty(md)

\* results[key] = value on an insertion-ordered dict: a known key keeps its place.
DictPut(res, key, value) ==
    IF \E i \in 1..Len(res) : res[i].key = key
    THEN [i \in 1..Len(res) |-> IF res[i].key = key THEN [key |-> key, value |-> value] ELSE res[i]]
    ELSE Append(res, [key |-> key, value |-> value])

\* Faulty variant: the result is stored without testing it.
StoreMetricsUntested(res, key, metrics) == DictPut(res, key, metrics)

\* Lines 230-231: if metrics: results[ticker] = metrics
StoreMetrics(res, key, metrics) == IF metrics # None THEN DictPut(res, key, metrics) ELSE res

\* Line 56: not raw_data (None or an empty dict)
NoRawData(raw) == raw.none \/ Len(raw.val) = 0

\* Line 12 and the columns of AnalysisRun: id from the table's sequence,
\* analyzed_at from the server's clock.
RunRow(run_id, at, p) == [id |-> run_id, analyzed_at |-> at, parameters_used |-> p]

\* Lines 18-34: the AnalysisResult row of one entry of the mapping.
ResultRow(run_id, data) ==
    [analysis_run_id |-> run_id, ticker |-> data.ticker, price |-> data.price, rsi |-> data.rsi,
     deviation_rate_25 |-> data.deviation_rate_25, trend |-> data.trend,
     macd_line |-> data.MACD.line, macd_signal |-> data.MACD.signal,
     dmi_dmp |-> data.DMI.dmp, dmi_dmn |-> data.DMI.dmn, adx |-> data.ADX,
     volume |-> data.Volume, signals |-> data.signals,
     buy_score |-> data.buy_score, short_score |-> data.short_score]

\* Universe lists read from the CSV file, duplicates included.
MaxTickers == 2
Universe == {"7203", "^N225"}
TickerLists == SeqsUpTo(Universe, MaxTickers)

\* Daily columns over a shared index of MaxBars dates: a day on which a ticker did
\* not trade is a row of missing values.
GapRow == [high |-> NaN, low |-> NaN, close |-> NaN, volume |-> NaN]
BatchColumns ==
    {[i \in 1..MaxBars |-> IF i <= gaps THEN GapRow ELSE Bar(IF i = MaxBars THEN 19 ELSE 21)] :
        gaps \in 0..2}

\* Frames with a column for some of the requested symbols.
BatchDaily(yf) ==
    UNION {[cols -> BatchColumns] : cols \in SUBSET yf}

\* Intraday frames for the same columns: no row at all, or one session in which
\* each ticker has, or misses, the bar before the target time and the bar at it.
BatchIntra(cols) ==
    {EmptyFrame} \cup
    {[index |-> <<[day |-> Today, tod |-> TARGET_TIME - 1], TargetStamp>>,
      Close |-> [t \in cols |-> <<Num(IntraClose(TARGET_TIME - 1)),
                                  IF t \in at THEN Num(IntraClose(TARGET_TIME)) ELSE NaN>>]] :
        at \in SUBSET cols}

BatchLib ==
    {Lib(r, Num(1), Num(0), Num(30), Num(30), Num(20), raises) :
        r \in {Num(50), NaN}, raises \in BOOLEAN}

BatchParamSets == {FastParams, SlowMacdParams}

\* A full parameter set in the tuning store under date d.
StoredRows(p, d) == {[date |-> d, name |-> n, value |-> Num(p[n])] : n \in ParamNames}

\* The store before the task: empty, or holding one earlier run.
PriorMetrics ==
    CalculateMetrics(T1, (T1 :> [i \in 1..MaxBars |-> Bar(21)]), EmptyFrame, FastParams,
                     Lib(Num(50), Num(1), Num(0), Num(30), Num(30), Num(20), TRUE))
PriorRuns == <<RunRow(1, 0, FastParams)>>
PriorResults == <<ResultRow(1, PriorMetrics)>>

BatchInit ==
    /\ bpc = "idle"
    /\ tickers = NoneOpt
    /\ b_multi = EmptyDict
    /\ b_intra = EmptyFrame
    /\ b_dl = "pending"
    /\ b_lib = EmptyDict
    /\ idx = 0
    /\ results = <<>>
    /\ raw_data = NoneOpt
    /\ \/ db_runs = <<>> /\ db_results = <<>>
       \/ db_runs = PriorRuns /\ db_results = PriorResults
    /\ db_params \in {{}} \cup {StoredRows(p, 1) : p \in BatchParamSets}
    /\ db_seq = Len(db_runs)

bstay == <<pc, ticker, multi_data, intra_day_data, df, price_at_time, ind,
           deviation_rate_25, trend, signals, buy_score, short_score, ret>>

\* Line 209: get_tuning_parameters as one step of the task: the defaults when a
\* store operation fails, the defaults seeded into an empty store, or the set
\* stored under the greatest date.
ResolveParams ==
    /\ bpc = "idle"
    /\ \E ok \in BOOLEAN :
        IF ~ok
        THEN params' = AsParams(DefaultReturn) /\ db_params' = db_params
        ELSE IF LatestDate(db_params).none
        THEN /\ db_params' = db_params \cup DefaultRows(today)
             /\ params' = AsParams(LoadedReturn(db_params', today))
        ELSE /\ db_params' = db_params
             /\ params' = AsParams(LoadedReturn(db_params, LatestDate(db_params).val))
    /\ bpc' = "read"
    /\ UNCHANGED <<tickers, b_multi, b_intra, b_dl, b_lib, idx, results, raw_data,
                   db_runs, db_results, bstay, db_seq, now, today, spc, s_results, s_params,
                   s_idx, tx_runs, tx_results, tx_params, latest_date, s_ret, query, found,
                   filters, exported>>

\* Lines 211-214: the universe; None aborts.
ReadTickers ==
    /\ bpc = "read"
    /\ \E r \in {Some(l) : l \in TickerLists} \cup {NoneOpt} :
        /\ tickers' = r
        /\ IF r.none THEN raw_data' = NoneOpt /\ bpc' = "got"
           ELSE raw_data' = raw_data /\ bpc' = "download"
    /\ UNCHANGED <<params, b_multi, b_intra, b_dl, b_lib, idx, results, db_runs, db_results, bstay, svars>>

\* Lines 216-222: the download; no data at all aborts.
Download ==
    /\ bpc = "download"
    /\ LET yf == {YfTicker(tickers.val[i]) : i \in 1..Len(tickers.val)}
       IN  \E dl \in {"failed", "ok"} :
            \E md \in IF dl = "ok" THEN BatchDaily(yf) ELSE {EmptyDict} :
             \E intra \in IF dl = "ok" THEN BatchIntra(DOMAIN md) ELSE {EmptyFrame} :
                /\ b_dl' = dl
                /\ b_multi' = md
                /\ b_intra' = intra
                /\ IF DownloadUnusable(dl, md)
                   THEN raw_data' = NoneOpt /\ bpc' = "got" /\ idx' = idx
                   ELSE raw_data' = raw_data /\ bpc' = "loop" /\ idx' = 1
    /\ results' = <<>>
    /\ UNCHANGED <<params, tickers, b_lib, db_runs, db_results, bstay, svars>>

\* Lines 224-231: one iteration of the loop over zip(tickers, yf_tickers).
LoopStep ==
    /\ bpc = "loop"
    /\ idx <= Len(tickers.val)
    /\ LET t == tickers.val[idx]
           ticker_yf == YfTicker(t)
       IN  IF ticker_yf \notin DOMAIN b_multi
           THEN UNCHANGED <<results, b_lib>>
           ELSE \E lib \in IF ticker_yf \in DOMAIN b_lib THEN {b_lib[ticker_yf]} ELSE BatchLib :
                   /\ b_lib' = (ticker_yf :> lib) @@ b_lib
                   /\ results' = StoreMetrics(results, t,
                                     CalculateMetrics(ticker_yf, b_multi, b_intra, params, lib))
    /\ idx' = idx + 1
    /\ UNCHANGED <<params, tickers, b_multi, b_intra, b_dl, bpc, raw_data, db_runs, db_results, bstay, svars>>

\* Lines 233-234: return results
LoopEnd ==
    /\ bpc = "loop"
    /\ idx > Len(tickers.val)
    /\ raw_data' = Some(results)
    /\ bpc' = "got"
    /\ UNCHANGED <<params, tickers, b_multi, b_intra, b_dl, b_lib, idx, results,
                   db_runs, db_results, bstay, svars>>

\* Lines 56-58 of analysis.py: nothing to save.
AbortTask ==
    /\ bpc = "got"
    /\ NoRawData(raw_data)
    /\ bpc' = "done"
    /\ UNCHANGED <<params, tickers, b_multi, b_intra, b_dl, b_lib, idx, results, raw_data,
                   db_runs, db_results, bstay, svars>>

\* Lines 61-70 and save_results_to_db (lines 7-42) as one step of the task: one
\* run row and one result row per entry, committed together; a failing store
\* operation rolls everything back (the id drawn from the sequence may be lost)
\* and the exception ends the task.
SaveResults ==
    /\ bpc = "got"
    /\ ~NoRawData(raw_data)
    /\ LET params_used == raw_data.val[1].value.parameters_used
           run_id == db_seq + 1
       IN  \E ok \in BOOLEAN :
            IF ok
            THEN /\ db_runs' = Append(db_runs, RunRow(run_id, now, params_used))
                 /\ db_results' = db_results \o
                        [i \in 1..Len(raw_data.val) |-> ResultRow(run_id, raw_data.val[i].value)]
                 /\ db_seq' = run_id
            ELSE /\ UNCHANGED <<db_runs, db_results>>
                 /\ db_seq' \in {db_seq, run_id}
    /\ bpc' = "done"
    /\ UNCHANGED <<params, tickers, b_multi, b_intra, b_dl, b_lib, idx, results, raw_data, bstay,
                   db_params, now, today, spc, s_results, s_params, s_idx, tx_runs, tx_results,
                   tx_params, latest_date, s_ret, query, found, filters, exported>>

InitBatch == TickerInit /\ BatchInit /\ SessionIdle /\ ClockInit

NextBatch ==
    \/ ResolveParams
    \/ ReadTickers
    \/ Download
    \/ LoopStep
    \/ LoopEnd
    \/ AbortTask
    \/ SaveResults

SpecBatch == InitBatch /\ [][NextBatch]_vars

----------------------------------------------------------------------------
(* save_results_to_db step by step (analysis.py lines 7-42) *)

\* The session is created with autoflush=False: db.flush() writes the run inside
\* the open transaction, db.add() only registers a row, db.commit() writes the
\* registered rows and makes the transaction's rows visible, db.rollback()
\* discards them.  db_runs and db_results hold committed rows only.

MaxRuns == 2

\* Lines 21-33: float() cannot convert None; int() cannot convert None or NaN.
Convertible(data) ==
    /\ \A v \in {data.price, data.rsi, data.deviation_rate_25, data.MACD.line,
                 data.MACD.signal, data.DMI.dmp, data.DMI.dmn, data.ADX} : ~IsNone(v)
    /\ IsNum(data.Volume)

\* Faulty variant: the rows written before the failure stay in the table.
RolledBackKeepsWritten(committed, pending) == committed \o pending

\* Line 40: db.rollback() leaves the table with its committed rows.
RolledBack(committed, pending) == committed

Raised == Some([raised |-> TRUE, value |-> EmptyDict])
Returned(v) == Some([raised |-> FALSE, value |-> v])

\* Lines 39-42: roll back and re-raise.
SaveFailed ==
    /\ db_runs' = RolledBack(db_runs, tx_runs)
    /\ db_results' = RolledBack(db_results, tx_results)
    /\ tx_runs' = <<>>
    /\ tx_results' = <<>>
    /\ s_ret' = Raised
    /\ spc' = "idle"

sstay == <<tvars, blocals, db_params, today, tx_params, latest_date, query, found,
           filters, exported>>

\* Entry of save_results_to_db(db, results, params); the clock advances by dt
\* since the previous call.  MaxRuns caps the ids drawn and the clock.
SaveCall(MS, PS, DT) ==
    /\ spc = "idle"
    /\ db_seq < MaxRuns
    /\ \E m \in MS, p \in PS, dt \in DT :
        /\ now + dt <= MaxRuns + 1
        /\ s_results' = m
        /\ s_params' = p
        /\ now' = now + dt
    /\ spc' = "save_run"
    /\ s_idx' = 0
    /\ s_ret' = NoneOpt
    /\ UNCHANGED <<db_runs, db_results, db_seq, tx_runs, tx_results, sstay>>

\* Lines 12-14: the run row is written inside the transaction and gets its id.
SaveRun ==
    /\ spc = "save_run"
    /\ \E ok \in BOOLEAN :
        IF ok
        THEN /\ tx_runs' = <<RunRow(db_seq + 1, now, s_params)>>
             /\ db_seq' = db_seq + 1
             /\ s_idx' = 1
             /\ spc' = "save_rows"
             /\ UNCHANGED <<db_runs, db_results, tx_results, s_ret>>
        ELSE /\ SaveFailed
             /\ db_seq' \in {db_seq, db_seq + 1}
             /\ s_idx' = s_idx
    /\ UNCHANGED <<s_results, s_params, now, sstay>>

\* Lines 17-35: one entry of results.items().
SaveRow ==
    /\ spc = "save_rows"
    /\ s_idx <= Len(s_results)
    /\ LET data == s_results[s_idx].value
       IN  IF Convertible(data)
           THEN /\ tx_results' = Append(tx_results, ResultRow(tx_runs[1].id, data))
                /\ s_idx' = s_idx + 1
                /\ UNCHANGED <<db_runs, db_results, tx_runs, s_ret, spc>>
           ELSE /\ SaveFailed
                /\ s_idx' = s_idx
    /\ UNCHANGED <<s_results, s_params, now, db_seq, sstay>>

\* Line 37: db.commit().
SaveCommit ==
    /\ spc = "save_rows"
    /\ s_idx > Len(s_results)
    /\ \E ok \in BOOLEAN :
        IF ok
        THEN /\ db_runs' = db_runs \o tx_runs
             /\ db_results' = db_results \o tx_results
             /\ tx_runs' = <<>>
             /\ tx_results' = <<>>
             /\ s_ret' = Returned(EmptyDict)
             /\ spc' = "idle"
        ELSE SaveFailed
    /\ UNCHANGED <<s_results, s_params, s_idx, now, db_seq, sstay>>

\* Mappings to save: results of calculate_metrics_for_ticker under their codes.
SavedWindow(yf) == (yf :> [i \in 1..MaxBars |-> Bar(21)])
HighLib == Lib(Num(20), Num(1), Num(0), Num(30), Num(30), Num(20), TRUE)
MidLib == Lib(Num(50), Num(1), Num(0), Num(25), Num(20), Num(30), TRUE)
LowLib == Lib(Num(80), Num(0), Num(1), Num(30), Num(20), Num(30), TRUE)
MetricsOf(t, lib) == CalculateMetrics(YfTicker(t), SavedWindow(YfTicker(t)), EmptyFrame, FastParams, lib)

MaxEntries == 2
Codes == {"7203", "6758", "^N225"}
Mappings(K, LS) ==
    {m \in SeqsUpTo({[key |-> t, value |-> MetricsOf(t, lib)] : t \in K, lib \in LS}, MaxEntries) :
        \A i, j \in 1..Len(m) : i # j => m[i].key # m[j].key}

NextSave ==
    \/ SaveCall(Mappings(Codes, {HighLib}), ScoreParamSets, {1})
    \/ SaveRun
    \/ SaveRow
    \/ SaveCommit

SpecSave == Init /\ [][NextSave]_vars

----------------------------------------------------------------------------
(* filter_and_enrich_data (output.py lines 11-62), called by run_sync_analysis *)

Benchmark == "^N225"

\* Faulty variant: the benchmark is filtered and enriched like any other ticker.
ExportCandidateAll(t) == TRUE

\* Lines 27-28: the benchmark is skipped by the loop.
ExportCandidate(t) == t # Benchmark

\* Lines 30-35: each filter applies only when given; rsi_decision is a list.
Matches(metrics, f) ==
    /\ f.rsi_decision.none \/ metrics.signals["RSI"] \in f.rsi_decision.val
    /\ f.deviation_25_decision.none \/ metrics.signals["Divergence_25d"] = f.deviation_25_decision.val
    /\ f.sma_75_decision.none \/ metrics.signals["MA75_Trend"] = f.sma_75_decision.val

\* Lines 36-48: a copy of the metrics with the company information, or the
\* metrics alone when fetching the information raises.
Entry(metrics, info) == [metrics |-> metrics, info |-> info]
Enriched(key, metrics, failed) == Entry(metrics, IF key \in failed THEN "absent" ELSE "fetched")

\* Lines 23-48: filtered_data.values(), in the order of data.items().
FilteredData(data, f, failed) ==
    LET kept == SelectSeq(data, LAMBDA e : ExportCandidate(e.key) /\ Matches(e.value, f))
    IN  [i \in 1..Len(kept) |-> Enriched(kept[i].key, kept[i].value, failed)]

\* Line 52: item.get('score', 0)
ScoreKey(item) == IF "score" \in DOMAIN item.metrics THEN item.metrics.score ELSE 0

\* sorted(..., reverse=True) is stable: an item goes after the items whose key is
\* greater or equal.
InsertDescending(sorted, item) ==
    LET n == Cardinality({i \in 1..Len(sorted) : ScoreKey(sorted[i]) >= ScoreKey(item)})
    IN  SubSeq(sorted, 1, n) \o <<item>> \o SubSeq(sorted, n + 1, Len(sorted))

RECURSIVE SortedByKey(_)
\* Line 52: sorted(list(filtered_data.values()), key=..., reverse=True)
SortedByKey(items) ==
    IF Len(items) = 0 THEN <<>>
    ELSE InsertDescending(SortedByKey(SubSeq(items, 1, Len(items) - 1)), items[Len(items)])

\* Lines 55-60: the benchmark's own metrics go first.
WithBenchmark(data, sorted_list) ==
    IF \E i \in 1..Len(data) : data[i].key = Benchmark
    THEN LET i == CHOOSE i \in 1..Len(data) : data[i].key = Benchmark
         IN  <<Entry(data[i].value, "absent")>> \o sorted_list
    ELSE sorted_list

\* The whole function.
FilterAndEnrichData(data, f, failed) ==
    WithBenchmark(data, SortedByKey(FilteredData(data, f, failed)))

\* Filters of a request: labels as the scoring writes them.
FilterSets ==
    [rsi_decision : {NoneOpt, Some({"buy"}), Some({"buy", "neutral"})},
     deviation_25_decision : {NoneOpt, Some("neutral"), Some("buy")},
     sma_75_decision : {NoneOpt, Some("No change")}]

xstay == <<tvars, tickers, b_multi, b_intra, b_dl, b_lib, idx, results, db_runs, db_results,
           db_params, db_seq, now, today, spc, s_results, s_params, s_idx, tx_runs,
           tx_results, tx_params, latest_date, s_ret, query, found>>

\* run_sync_analysis, lines 53-56: the mapping returned by get_tickers_data; an
\* empty one ends the request.
SyncGotData(MS) ==
    /\ bpc = "idle"
    /\ \E m \in MS :
        /\ raw_data' = Some(m)
        /\ bpc' = IF NoRawData(raw_data') THEN "sync_failed" ELSE "sync_got"
    /\ UNCHANGED <<filters, exported, xstay>>

\* run_sync_analysis, lines 58-63: the call of filter_and_enrich_data.
SyncFilterAndEnrich ==
    /\ bpc = "sync_got"
    /\ \E f \in FilterSets :
        \E failed \in SUBSET {raw_data.val[i].key : i \in 1..Len(raw_data.val)} :
            /\ filters' = Some(f)
            /\ exported' = Some(FilterAndEnrichData(raw_data.val, f, failed))
    /\ bpc' = "sync_done"
    /\ UNCHANGED <<raw_data, xstay>>

NextExport ==
    \/ SyncGotData(Mappings(Codes, {HighLib, MidLib, LowLib}))
    \/ SyncFilterAndEnrich

SpecExport == Init /\ [][NextExport]_vars

----------------------------------------------------------------------------
(* search_stocks (stocks.py lines 83-144) *)

\* Faulty variant: the runs are ordered by analyzed_at ascending.
EarliestRuns(runs) ==
    {i \in 1..Len(runs) : \A j \in 1..Len(runs) : runs[i].analyzed_at <= runs[j].analyzed_at}

\* Line 109: order_by(desc(analyzed_at)).first(); among runs of the same instant
\* the store may return any.
LatestRuns(runs) ==
    {i \in 1..Len(runs) : \A j \in 1..Len(runs) : runs[i].analyzed_at >= runs[j].analyzed_at}

\* Lines 117-123: the rows of the run, filtered by a minimum only when it is
\* positive.
Selected(rows, run, q) ==
    {k \in 1..Len(rows) :
        /\ rows[k].analysis_run_id = run.id
        /\ q.min_buy_score > 0 => rows[k].buy_score >= q.min_buy_score
        /\ q.min_short_score > 0 => rows[k].short_score >= q.min_short_score}

\* Line 126
SortColumn(row, q) == IF q.sort_by = "buy_score" THEN row.buy_score ELSE row.short_score

\* Lines 127-130
InOrder(a, b, q) == IF q.sort_order = "desc" THEN a >= b ELSE a <= b

\* Lines 127-133: the orders in which the store may return the selected rows
\* (rows of equal sort value in any order), cut at limit.
Orderings(rows, sel, q) ==
    LET n == Cardinality(sel)
        perms == {f \in [1..n -> sel] :
                    /\ \A i, j \in 1..n : i # j => f[i] # f[j]
                    /\ \A i \in 1..(n - 1) :
                           InOrder(SortColumn(rows[f[i]], q), SortColumn(rows[f[i + 1]], q), q)}
        m == IF q.limit < n THEN q.limit ELSE n
    IN  {[i \in 1..m |-> rows[f[i]]] : f \in perms}

\* _enrich_results (lines 10-38): the row's columns, the run's analyzed_at and
\* parameters_used, and the company information: empty for the benchmark and
\* when fetching it raises.
EnrichResults(list, run, failed) ==
    [i \in 1..Len(list) |->
        [row |-> list[i], analyzed_at |-> run.analyzed_at, parameters_used |-> run.parameters_used,
         info |-> IF list[i].ticker = Benchmark \/ list[i].ticker \in failed
                  THEN "empty" ELSE "fetched"]]

\* The lists search_stocks may return; an exception of the store gives [].
SearchStocks(runs, rows, q, raises, failed) ==
    IF raises \/ Len(runs) = 0 THEN {<<>>}
    ELSE UNION {{EnrichResults(l, runs[i], failed) : l \in Orderings(rows, Selected(rows, runs[i], q), q)} :
                    i \in LatestRuns(runs)}

MaxLimit == 2

\* Requests of the search endpoint.
Queries ==
    [min_buy_score : {0, 2}, min_short_score : {0, 2},
     sort_by : {"buy_score", "short_score", "price"},
     sort_order : {"desc", "asc", "down"},
     limit : {0, 1, MaxLimit}]

\* The whole of search_stocks: a read of the committed rows.
Search ==
    /\ spc = "idle"
    /\ \E q \in Queries, raises \in BOOLEAN :
        \E failed \in IF raises THEN {{}} ELSE SUBSET {T1} :
            /\ query' = Some(q)
            /\ found' \in {Some(l) : l \in SearchStocks(db_runs, db_results, q, raises, failed)}
    /\ spc' = "searched"
    /\ UNCHANGED <<tvars, blocals, db_runs, db_results, db_params, db_seq, now, today, s_results,
                   s_params, s_idx, tx_runs, tx_results, tx_params, latest_date, s_ret,
                   filters, exported>>

\* Mappings recorded before a search: three rows of different scores with the
\* benchmark lowest in buy_score, two rows of equal scores, one row.
Item(t, lib) == [key |-> t, value |-> MetricsOf(t, lib)]
SearchMappings ==
    {<<Item("7203", HighLib), Item("6758", MidLib), Item(Benchmark, LowLib)>>,
     <<Item("7203", MidLib), Item("6758", MidLib)>>,
     <<Item("7203", MidLib)>>}

NextSearch ==
    \/ SaveCall(SearchMappings, {FastParams}, {0, 1})
    \/ SaveRun
    \/ SaveRow
    \/ SaveCommit
    \/ Search

SpecSearch == Init /\ [][NextSearch]_vars

----------------------------------------------------------------------------
(* get_tuning_parameters step by step (getTickersData.py lines 36-69) *)

MaxDay == 2

gstay == <<tvars, blocals, db_runs, db_results, db_seq, now, s_results, s_params, s_idx,
           tx_runs, tx_results, query, found, filters, exported>>

\* A parameter set written into the store by the tuning, under a date that has
\* no rows yet: a full set, or a few parameters only.
TunedRows(d) ==
    {{[date |-> d, name |-> n, value |-> Num(TunedParams[n])] : n \in ParamNames},
     {[date |-> d, name |-> "rsi_length", value |-> Num(3)],
      [date |-> d, name |-> "rsi_buy_threshold", value |-> Frac(51, 2)]}}

TunerWrites ==
    /\ spc = "idle"
    /\ \E d \in 1..MaxDay :
        /\ \A r \in db_params : r.date # d
        /\ \E rows \in TunedRows(d) : db_params' = db_params \cup rows
    /\ UNCHANGED <<today, spc, tx_params, latest_date, s_ret, gstay>>

\* Lines 66-69: roll back, return the defaults.
TuneFailed ==
    /\ tx_params' = {}
    /\ s_ret' = Returned(DefaultReturn)
    /\ spc' = "idle"

\* Entry of get_tuning_parameters(db); the calendar may have moved on.
GetParamsCall ==
    /\ spc = "idle"
    /\ \E dd \in {0, 1} :
        /\ today + dd <= MaxDay
        /\ today' = today + dd
    /\ spc' = "tune_max"
    /\ latest_date' = NoneOpt
    /\ s_ret' = NoneOpt
    /\ UNCHANGED <<db_params, tx_params, gstay>>

\* Lines 41-43
TuneMax ==
    /\ spc = "tune_max"
    /\ \E ok \in BOOLEAN :
        IF ok
        THEN /\ latest_date' = LatestDate(db_params)
             /\ spc' = IF latest_date'.none THEN "tune_seed" ELSE "tune_load"
             /\ UNCHANGED <<tx_params, s_ret>>
        ELSE TuneFailed /\ UNCHANGED latest_date
    /\ UNCHANGED <<db_params, today, gstay>>

\* Lines 44-51: the default rows are added and committed; the commit fails when
\* the store refuses it, as it must when a (date, name) would be stored twice.
TuneSeed ==
    /\ spc = "tune_seed"
    /\ \E ok \in BOOLEAN :
        IF ok /\ UniqueDateName(db_params \cup DefaultRows(today))
        THEN /\ db_params' = db_params \cup DefaultRows(today)
             /\ latest_date' = Some(today)
             /\ spc' = "tune_load"
             /\ UNCHANGED <<tx_params, s_ret>>
        ELSE TuneFailed /\ UNCHANGED <<db_params, latest_date>>
    /\ UNCHANGED <<today, gstay>>

\* Lines 53-65
TuneLoad ==
    /\ spc = "tune_load"
    /\ \E ok \in BOOLEAN :
        IF ok
        THEN /\ s_ret' = Returned(LoadedReturn(db_params, latest_date.val))
             /\ spc' = "idle"
             /\ UNCHANGED tx_params
        ELSE TuneFailed
    /\ UNCHANGED <<db_params, today, latest_date, gstay>>

NextTuning ==
    \/ TunerWrites
    \/ GetParamsCall
    \/ TuneMax
    \/ TuneSeed
    \/ TuneLoad

SpecTuning == Init /\ [][NextTuning]_vars

----------------------------------------------------------------------------
(* Properties *)

Included == pc = "returned" /\ ret # None

\* The score table of the specification: <<buy delta, short delta>> of a branch,
\* named by its family and the label it writes.
TableDelta(fam, label) ==
    CASE fam = "RSI" /\ label = "buy" -> <<2, 0>>
      [] fam = "RSI" /\ label = "buy prepare" -> <<1, 0>>
      [] fam = "RSI" /\ label = "sell" -> <<0, 2>>
      [] fam = "RSI" /\ label = "sell prepare" -> <<0, 1>>
      [] fam = "RSI" /\ label = "neutral" -> <<0, 0>>
      [] fam = "Divergence_25d" /\ label = "buy" -> <<2, 0>>
      [] fam = "Divergence_25d" /\ label = "sell" -> <<0, 2>>
      [] fam = "Divergence_25d" /\ label = "neutral" -> <<0, 0>>
      [] fam = "MA75_Trend" /\ label = "Upward" -> <<1, 0>>
      [] fam = "MA75_Trend" /\ label = "Downward" -> <<0, 1>>
      [] fam = "MA75_Trend" /\ label = "No change" -> <<0, 0>>
      [] fam = "MACD" /\ label = "buy" -> <<2, 0>>
      [] fam = "MACD" /\ label = "sell" -> <<0, 2>>
      [] fam = "DMI" /\ label = "golden cross" -> <<2, 0>>
      [] fam = "DMI" /\ label = "dead cross" -> <<0, 2>>
      [] fam = "ADX" /\ label = "strong uptrend" -> <<1, 0>>
      [] fam = "ADX" /\ label = "strong downtrend" -> <<0, 1>>
      [] fam = "ADX" /\ label = "trendless" -> <<0, 0>>
      [] OTHER -> <<-1, -1>>

AllFamilies == {"RSI", "Divergence_25d", "MA75_Trend", "MACD", "DMI", "ADX"}

RECURSIVE TableSum(_, _, _)
\* Sum of the table's deltas (j = 1: buy, j = 2: short) over the families of fams
\* that have a label in sig.
TableSum(sig, fams, j) ==
    IF fams = {} THEN 0
    ELSE LET f == CHOOSE x \in fams : TRUE
         IN  (IF f \in DOMAIN sig THEN TableDelta(f, sig[f])[j] ELSE 0)
                 + TableSum(sig, fams \ {f}, j)

Additive(sig, buy, short) ==
    /\ DOMAIN sig \subseteq AllFamilies
    /\ \A f \in DOMAIN sig : TableDelta(f, sig[f])[1] >= 0 /\ TableDelta(f, sig[f])[2] >= 0
    /\ buy = TableSum(sig, AllFamilies, 1)
    /\ short = TableSum(sig, AllFamilies, 2)

\* C1: at every point of the scoring, and in the returned result, buy_score and
\* short_score are the sums of the table's buy and short deltas of the branches
\* taken so far (named by the labels written), no delta is negative, and the
\* result carries exactly one label for each of the six families.
C1_ScoreAdditivity ==
    /\ pc \in AllFamilies \cup {"return"} => Additive(signals, buy_score, short_score)
    /\ pc = "return" => DOMAIN signals = AllFamilies
    /\ Included => /\ Additive(ret.signals, ret.buy_score, ret.short_score)
                   /\ DOMAIN ret.signals = AllFamilies

C1_Witness == Included /\ ret.buy_score = 5 /\ ret.short_score = 3

\* The step of a family wrote `label` and added exactly (db, ds) to the scores.
Took(fam, label, db, ds) ==
    /\ fam \in DOMAIN signals'
    /\ signals'[fam] = label
    /\ buy_score' = buy_score + db
    /\ short_score' = short_score + ds

RsiOrdered(p) ==
    /\ p.rsi_buy_threshold < p.rsi_buy_prepare_threshold
    /\ p.rsi_buy_prepare_threshold <= p.rsi_sell_prepare_threshold
    /\ p.rsi_sell_prepare_threshold < p.rsi_sell_threshold

C2_Step ==
    (pc = "RSI" /\ pc' = "Divergence_25d" /\ RsiOrdered(params) /\ IsNum(ind.rsi)) =>
        LET r == ind.rsi
            buy_t == Num(params.rsi_buy_threshold)
            buy_prep == Num(params.rsi_buy_prepare_threshold)
            sell_prep == Num(params.rsi_sell_prepare_threshold)
            sell_t == Num(params.rsi_sell_threshold)
        IN  /\ LT(r, buy_t) => Took("RSI", "buy", 2, 0)
            /\ (GE(r, buy_t) /\ LT(r, buy_prep)) => Took("RSI", "buy prepare", 1, 0)
            /\ GT(r, sell_t) => Took("RSI", "sell", 0, 2)
            /\ (GE(r, sell_prep) /\ LE(r, sell_t)) => Took("RSI", "sell prepare", 0, 1)
            /\ (GE(r, buy_prep) /\ LT(r, sell_prep)) => Took("RSI", "neutral", 0, 0)
            /\ \/ LT(r, buy_t)
               \/ GE(r, buy_t) /\ LT(r, buy_prep)
               \/ GT(r, sell_t)
               \/ GE(r, sell_prep) /\ LE(r, sell_t)
               \/ GE(r, buy_prep) /\ LT(r, sell_prep)

\* C2: with ordered thresholds the RSI step classifies every rsi value by the five
\* ranges of the table: below buy -> "buy" (strong buy) +2 buy; [buy, buy_prepare)
\* -> "buy prepare" +1 buy; above sell -> "sell" (strong sell) +2 short;
\* [sell_prepare, sell] -> "sell prepare" +1 short, so rsi equal to the sell
\* threshold is "sell prepare"; [buy_prepare, sell_prepare) -> "neutral", no points.
C2_RsiFamily == [][C2_Step]_vars

C2_Witness ==
    /\ pc = "Divergence_25d"
    /\ EQ(ind.rsi, Num(params.rsi_sell_threshold))
    /\ signals["RSI"] = "sell prepare"
    /\ short_score = 1 /\ buy_score = 0

C3_Step ==
    /\ (pc = "MACD" /\ pc' = "DMI") =>
          IF GT(ind.macd_line, ind.macd_signal_val)
          THEN Took("MACD", "buy", 2, 0) ELSE Took("MACD", "sell", 0, 2)
    /\ (pc = "DMI" /\ pc' = "ADX") =>
          IF GT(ind.dmp, ind.dmn)
          THEN Took("DMI", "golden cross", 2, 0) ELSE Took("DMI", "dead cross", 0, 2)

\* C3: the MACD step gives "buy" and +2 buy only when macd_line > macd_signal and
\* otherwise, ties included, "sell" and +2 short; the DMI step gives "golden cross"
\* and +2 buy only when +DI > -DI and otherwise, ties included, "dead cross" and
\* +2 short.  Each step adds 2 points to exactly one score.
C3_StrictCross == [][C3_Step]_vars

C3_Witness ==
    /\ pc = "ADX"
    /\ EQ(ind.macd_line, ind.macd_signal_val) /\ signals["MACD"] = "sell"
    /\ EQ(ind.dmp, ind.dmn) /\ signals["DMI"] = "dead cross"
    /\ buy_score + short_score >= 4

C4_Step ==
    (pc = "Divergence_25d" /\ pc' = "MA75_Trend") =>
        LET dev == deviation_rate_25
            len == params.sma_short_length
            total == SumClose(df, Len(df) - len + 1, Len(df))
            buy_t == Num(params.deviation_buy_threshold)
            sell_t == Num(params.deviation_sell_threshold)
        IN  /\ IsNum(dev)
            /\ df[Len(df)].close = price_at_time
            \* dev = 100 * (close - sma) / sma with sma = total / len
            /\ dev.n * total = dev.d * 100 * (price_at_time.n * len - total * price_at_time.d)
            /\ IF LE(dev, buy_t) THEN Took("Divergence_25d", "buy", 2, 0)
               ELSE IF GE(dev, sell_t) THEN Took("Divergence_25d", "sell", 0, 2)
               ELSE /\ Took("Divergence_25d", "neutral", 0, 0)
                    /\ GT(dev, buy_t) /\ LT(dev, sell_t)
            /\ EQ(dev, Num(0)) => Took("Divergence_25d", "neutral", 0, 0)
            /\ (params.deviation_buy_threshold < 0 /\ 0 < params.deviation_sell_threshold)
                   => ~(LE(dev, buy_t) /\ GE(dev, sell_t))

\* C4: deviation_rate_25 is 100 * (as-of close - SMA short) / SMA short, and the
\* deviation step is inclusive at both thresholds: deviation <= buy threshold ->
\* "buy" +2 buy; otherwise deviation >= sell threshold -> "sell" +2 short;
\* otherwise, strictly between the thresholds (0 included), "neutral" and no
\* points.  With buy threshold < 0 < sell threshold both tests never hold together.
C4_DeviationFamily == [][C4_Step]_vars

C4_Witness ==
    /\ pc = "MA75_Trend"
    /\ EQ(deviation_rate_25, Num(params.deviation_buy_threshold))
    /\ signals["Divergence_25d"] = "buy"
    /\ buy_score >= 2

C5_Step ==
    (pc = "ADX" /\ pc' = "return") =>
        LET strong == GT(ind.adx, Num(params.adx_threshold))
        IN  /\ "ADX" \in DOMAIN signals'
            /\ signals'["ADX"] = "strong uptrend" <=> (strong /\ GT(ind.dmp, ind.dmn))
            /\ signals'["ADX"] = "strong downtrend" <=> (strong /\ LT(ind.dmp, ind.dmn))
            /\ signals'["ADX"] = "trendless" <=>
                   ~(strong /\ (GT(ind.dmp, ind.dmn) \/ LT(ind.dmp, ind.dmn)))
            /\ signals'["ADX"] = "strong uptrend" => Took("ADX", "strong uptrend", 1, 0)
            /\ signals'["ADX"] = "strong downtrend" => Took("ADX", "strong downtrend", 0, 1)
            /\ signals'["ADX"] = "trendless" => Took("ADX", "trendless", 0, 0)
            /\ EQ(ind.adx, Num(params.adx_threshold)) => signals'["ADX"] = "trendless"
            /\ EQ(ind.dmp, ind.dmn) => signals'["ADX"] = "trendless"

\* C5: the ADX step gives "strong uptrend" and +1 buy exactly when adx > threshold
\* and +DI > -DI, "strong downtrend" and +1 short exactly when adx > threshold and
\* +DI < -DI, and "trendless" with no points in every other case, among them adx
\* equal to the threshold and +DI equal to -DI.
C5_AdxFamily == [][C5_Step]_vars

C5_Witness ==
    /\ pc = "return"
    /\ EQ(ind.adx, Num(params.adx_threshold))
    /\ GT(ind.dmp, ind.dmn)
    /\ signals["ADX"] = "trendless"

SnapshotFields ==
    {"rsi", "sma_25", "sma_75", "previous_sma_75", "macd_line", "macd_signal_val",
     "adx", "dmp", "dmn"}

\* C6: a ticker that is in the result has a defined (numeric) value for every one
\* of the nine snapshot fields at the final bar.
C6_NoPartialSnapshot == Included => \A f \in SnapshotFields : IsNum(ind[f])

\* Rows of the ticker's daily column with all of high, low, close, volume present.
UsableBars == {i \in 1..Len(multi_data[ticker]) : Complete(multi_data[ticker][i])}

\* Every library indicator is warmed up on n bars: RSI needs length + 1 bars, the
\* MACD signal slow + signal - 1, ADX twice its length, the short SMA its length.
Computable(p, n) ==
    /\ n > p.rsi_length
    /\ n >= p.sma_short_length
    /\ p.macd_fast <= p.macd_slow
    /\ n >= p.macd_slow + p.macd_signal - 1
    /\ n >= 2 * p.adx_length

\* C7: counting only the complete rows, a ticker with exactly sma_long_length - 1
\* usable bars returns None, and one with exactly sma_long_length usable bars, on
\* which the other indicators are computable, returns a result.
C7_ExclusionBoundary ==
    (pc = "returned" /\ ticker \in DOMAIN multi_data) =>
        /\ Cardinality(UsableBars) = params.sma_long_length - 1 => ret = None
        /\ (Cardinality(UsableBars) = params.sma_long_length
               /\ Computable(params, params.sma_long_length)) => ret # None

C7_Witness ==
    /\ Included
    /\ Cardinality(UsableBars) = params.sma_long_length
    /\ Len(multi_data[ticker]) > params.sma_long_length
    /\ Computable(params, params.sma_long_length)

\* Intraday bars of the ticker that carry a close.
IntraBars ==
    IF ticker \in DOMAIN intra_day_data.Close
    THEN {i \in 1..Len(intra_day_data.index) : IsNum(intra_day_data.Close[ticker][i])}
    ELSE {}

StampOf(i) == intra_day_data.index[i]

ExactBars == {i \in IntraBars : StampOf(i).tod = TARGET_TIME}
PriorBars == {i \in IntraBars : Before(StampOf(i), TargetStamp)}

LastDailyClose ==
    LET rows == multi_data[ticker]
        last == CHOOSE i \in UsableBars : \A j \in UsableBars : j <= i
    IN  rows[last].close

\* The as-of close by the priority of the claim: the bar at the target time of
\* day, else the latest bar strictly before the target time, else the daily close.
ExpectedAsOf ==
    IF ExactBars # {}
    THEN intra_day_data.Close[ticker][CHOOSE i \in ExactBars : \A j \in ExactBars : i <= j]
    ELSE IF PriorBars # {}
    THEN intra_day_data.Close[ticker][
             CHOOSE i \in PriorBars : \A j \in PriorBars : ~Before(StampOf(i), StampOf(j))]
    ELSE LastDailyClose

OwnDaily(yf) == (yf :> SelectSeq(b_multi[yf], Complete))

OwnIntra(yf) ==
    IF yf \notin DOMAIN b_intra.Close THEN EmptyFrame
    ELSE LET own == {i \in 1..Len(b_intra.index) : IsNum(b_intra.Close[yf][i])}
             pos == IF own = {} THEN <<>> ELSE SortedSeq(own)
         IN  [index |-> [i \in 1..Len(pos) |-> b_intra.index[pos[i]]],
              Close |-> (yf :> [i \in 1..Len(pos) |-> b_intra.Close[yf][pos[i]]])]

\* The outcome of a ticker of the universe from its own data alone.
OwnMetrics(t) ==
    LET yf == YfTicker(t)
    IN  IF yf \notin DOMAIN b_multi THEN None
        ELSE CalculateMetrics(yf, OwnDaily(yf), OwnIntra(yf), params, b_lib[yf])

C10_Step ==
    /\ (bpc' \in {"got", "done"} /\ (b_dl' = "failed" \/ (b_dl' = "ok" /\ DailyEmpty(b_multi'))))
           => raw_data'.none
    /\ (db_runs' # db_runs \/ db_results' # db_results)
           => /\ b_dl = "ok" /\ ~DailyEmpty(b_multi)
              /\ ~raw_data.none /\ Len(raw_data.val) > 0
    /\ (bpc' = "done" /\ (raw_data'.none \/ Len(raw_data'.val) = 0))
           => (db_runs' = db_runs /\ db_results' = db_results)

\* C10: when the download fails or the daily frame is empty, get_tickers_data
\* returns None; no step of a task whose download gave no data, or whose result
\* mapping is None or empty, changes the stored AnalysisRun and AnalysisResult rows.
C10_NoPartialRun == [][C10_Step]_vars

C10_Witness ==
    /\ bpc = "done"
    /\ b_dl = "failed"
    /\ raw_data.none
    /\ db_runs = PriorRuns /\ db_results = PriorResults

RunIds(runs) == {runs[i].id : i \in 1..Len(runs)}

\* Every stored result row references a stored run, and run ids are unique.
Referential(runs, rows) ==
    /\ \A i \in 1..Len(rows) : rows[i].analysis_run_id \in RunIds(runs)
    /\ \A i, j \in 1..Len(runs) : runs[i].id = runs[j].id => i = j

C11_Step ==
    LET returning == spc \in {"save_run", "save_rows"} /\ spc' = "idle"
    IN  /\ returning =>
            /\ ~s_ret'.none
            /\ tx_runs' = <<>> /\ tx_results' = <<>>
            /\ IF s_ret'.val.raised
               THEN db_runs' = db_runs /\ db_results' = db_results
               ELSE /\ Len(db_runs') = Len(db_runs) + 1
                    /\ SubSeq(db_runs', 1, Len(db_runs)) = db_runs
                    /\ LET run == db_runs'[Len(db_runs')]
                       IN  /\ run.parameters_used = s_params
                           /\ run.id \notin RunIds(db_runs)
                           /\ Len(db_results') = Len(db_results) + Len(s_results)
                           /\ SubSeq(db_results', 1, Len(db_results)) = db_results
                           /\ \A i \in 1..Len(s_results) :
                                  db_results'[Len(db_results) + i] =
                                      ResultRow(run.id, s_results[i].value)
        /\ ~returning => db_runs' = db_runs /\ db_results' = db_results
        /\ Referential(db_runs', db_results')

\* C11: a call of save_results_to_db that returns has appended exactly one
\* AnalysisRun carrying the ParameterSet, under a fresh id, and exactly one
\* AnalysisResult per entry of the mapping, each referencing that id; a call that
\* fails at any step raises, and leaves the stored runs and results as they were
\* and the session without pending rows; no other step changes the stored rows;
\* every stored result references a stored run.
C11_AllOrNothing == [][C11_Step]_vars

\* A second call failed at the commit, with its run written and its two result
\* rows registered, after a first call had stored its run.
C11_Witness ==
    /\ spc = "idle"
    /\ ~s_ret.none /\ s_ret.val.raised
    /\ Len(s_results) = 2 /\ s_idx = 3
    /\ Len(db_runs) = 1 /\ db_seq = 2
    /\ Len(db_results) > 0

ExportedTickers == [i \in 1..Len(exported.val) |-> exported.val[i].metrics.ticker]
BenchmarkInData == \E i \in 1..Len(raw_data.val) : raw_data.val[i].key = Benchmark

\* C12: when the benchmark is a key of the data, the returned list has the
\* benchmark's metrics at position 1 and at no other position, whatever its
\* scores and whatever the filters; when it is not a key of the data, no entry of
\* the list is the benchmark's.
C12_BenchmarkFirst ==
    ~exported.none =>
        IF BenchmarkInData
        THEN /\ Len(exported.val) >= 1
             /\ \E i \in 1..Len(raw_data.val) :
                    /\ raw_data.val[i].key = Benchmark
                    /\ exported.val[1].metrics = raw_data.val[i].value
             /\ {i \in 1..Len(exported.val) : ExportedTickers[i] = Benchmark} = {1}
        ELSE \A i \in 1..Len(exported.val) : ExportedTickers[i] # Benchmark

\* The benchmark is the last key of the data, has the lowest buy_score, does not
\* match the RSI filter, and is first of a list of two.
C12_Witness ==
    /\ ~exported.none
    /\ Len(raw_data.val) = 2 /\ raw_data.val[2].key = Benchmark
    /\ raw_data.val[2].value.buy_score < raw_data.val[1].value.buy_score
    /\ ~filters.val.rsi_decision.none
    /\ raw_data.val[2].value.signals["RSI"] \notin filters.val.rsi_decision.val
    /\ Len(exported.val) = 2
    /\ ExportedTickers[1] = Benchmark

\* C13: apart from a benchmark entry at the head, no entry of the returned list
\* is followed by an entry with a strictly higher buy_score.
C13_SortedByScore ==
    ~exported.none =>
        \A i, j \in 1..Len(exported.val) :
            (i < j /\ ExportedTickers[i] # Benchmark)
                => exported.val[i].metrics.buy_score >= exported.val[j].metrics.buy_score

\* C14: the list returned by search_stocks is empty when no run is stored;
\* otherwise all its rows are stored rows of one run of greatest analyzed_at,
\* every row has buy_score >= min_buy_score and short_score >= min_short_score,
\* consecutive rows are ordered by buy_score when sort_by is 'buy_score' and by
\* short_score otherwise, descending when sort_order is 'desc' and ascending
\* otherwise, and there are at most limit rows.
C14_SearchLatest ==
    ~found.none =>
        LET l == found.val
            q == query.val
            col(e) == IF q.sort_by = "buy_score" THEN e.row.buy_score ELSE e.row.short_score
        IN  /\ Len(db_runs) = 0 => Len(l) = 0
            /\ Len(l) > 0 =>
                 \E r \in 1..Len(db_runs) :
                    /\ \A j \in 1..Len(db_runs) : db_runs[r].analyzed_at >= db_runs[j].analyzed_at
                    /\ \A i \in 1..Len(l) :
                          /\ l[i].row.analysis_run_id = db_runs[r].id
                          /\ \E k \in 1..Len(db_results) : db_results[k] = l[i].row
            /\ \A i \in 1..Len(l) :
                  /\ l[i].row.buy_score >= q.min_buy_score
                  /\ l[i].row.short_score >= q.min_short_score
            /\ \A i \in 1..(Len(l) - 1) :
                  IF q.sort_order = "desc" THEN col(l[i]) >= col(l[i + 1])
                  ELSE col(l[i]) <= col(l[i + 1])
            /\ Len(l) <= q.limit

\* Two runs of different instants are stored; the later one has three rows, two
\* of them pass the minimum (one exactly), and the one of lower short_score is
\* returned alone under limit 1.
C14_Witness ==
    /\ ~found.none
    /\ Len(db_runs) = 2 /\ db_runs[1].analyzed_at < db_runs[2].analyzed_at
    /\ Cardinality({k \in 1..Len(db_results) : db_results[k].analysis_run_id = db_runs[1].id}) = 2
    /\ Cardinality({k \in 1..Len(db_results) : db_results[k].analysis_run_id = db_runs[2].id}) = 3
    /\ Cardinality({k \in 1..Len(db_results) :
                       /\ db_results[k].analysis_run_id = db_runs[2].id
                       /\ db_results[k].buy_score >= 2}) = 2
    /\ query.val.min_buy_score = 2 /\ query.val.limit = 1
    /\ query.val.sort_by = "short_score" /\ query.val.sort_order = "asc"
    /\ Len(found.val) = 1
    /\ found.val[1].row.buy_score = 7

C15_Step ==
    LET calling == spc \in {"tune_max", "tune_seed", "tune_load"}
        returning == calling /\ spc' = "idle"
    IN  /\ (calling /\ db_params # {}) => db_params' = db_params
        /\ (calling /\ db_params' # db_params) =>
              /\ db_params = {}
              /\ db_params' = {[date |-> today, name |-> n, value |-> Num(FastParams[n])] :
                                  n \in ParamNames}
        /\ returning =>
              /\ ~s_ret'.none
              /\ tx_params' = {}
              /\ LET out == s_ret'.val.value
                 IN  IF out.date.none
                     THEN out.values = [n \in ParamNames |-> Num(FastParams[n])]
                     ELSE /\ db_params' # {}
                          /\ \A r \in db_params' : r.date <= out.date.val
                          /\ DOMAIN out.values = {r.name : r \in {x \in db_params' : x.date = out.date.val}}
                          /\ \A r \in db_params' :
                                r.date = out.date.val => out.values[r.name] = r.value
        /\ db_params \subseteq db_params'
        /\ \A r1, r2 \in db_params' : (r1.date = r2.date /\ r1.name = r2.name) => r1 = r2

C16_ScoreBounds ==
    Included =>
        /\ 0 <= ret.buy_score /\ ret.buy_score <= 10
        /\ 0 <= ret.short_score /\ ret.short_score <= 10
        /\ 4 <= ret.buy_score + ret.short_score
        /\ ret.buy_score + ret.short_score <= 10

\* A result where only MACD and DMI give points, the DMI on a tie: the sum is at
\* its lower bound.
C16_Witness ==
    /\ Included
    /\ EQ(ind.dmp, ind.dmn)
    /\ ret.signals["RSI"] = "neutral"
    /\ ret.buy_score + ret.short_score = 4

====
